---- MODULE Spec2Model ----
(***************************************************************************)
(* Model of ert-format-helper.py: a batch transform of ERT raid-cooldown   *)
(* event lines into per-healer files, a non-healer file and one file of    *)
(* visibility-encapsulated events.                                         *)
(*                                                                         *)
(* Strings are sequences of one-character strings, so that the regular     *)
(* expressions, re.sub and str.replace are modelled by what they do to     *)
(* the characters of a line.                                               *)
(***************************************************************************)
EXTENDS Integers, Sequences, FiniteSets

(***************************************************************************)
(* Bounds of the model.                                                    *)
(***************************************************************************)
\* most assignment tokens in the one freely chosen line of an event list
MaxTokens == 2
\* most lines in the source
MaxEvents == 2
\* most consecutive runs of main()
MaxRuns == 2

(***************************************************************************)
(* Character classes of Python's re module (str patterns).                 *)
(***************************************************************************)
Digits == {"0", "1", "2", "3", "4", "5", "6", "7", "8", "9"}

\* [0-9abcdefABCDEF]
HexDigits == Digits \cup {"a", "b", "c", "d", "e", "f", "A", "B", "C", "D", "E", "F"}

Letters ==
    {"a", "b", "c", "d", "e", "f", "g", "h", "i", "j", "k", "l", "m", "n", "o",
     "p", "q", "r", "s", "t", "u", "v", "w", "x", "y", "z",
     "A", "B", "C", "D", "E", "F", "G", "H", "I", "J", "K", "L", "M", "N", "O",
     "P", "Q", "R", "S", "T", "U", "V", "W", "X", "Y", "Z", "ô", "í"}

\* \w
WordChars == Letters \cup Digits \cup {"_"}

\* \s
Whitespace == {" ", "\t", "\n", "\r", "\f"}

\* [\s\w]
NameChars == Whitespace \cup WordChars

(***************************************************************************)
(* String helpers.                                                         *)
(***************************************************************************)
\* s has p as a substring starting at index i
StartsWithAt(s, i, p) ==
    /\ i >= 1
    /\ i + Len(p) - 1 <= Len(s)
    /\ \A k \in 1..Len(p) : s[i + k - 1] = p[k]

\* the first index j >= i with s[j] outside C, or Len(s) + 1: where a greedy
\* C* that starts at i stops
RECURSIVE RunEnd(_, _, _)
RunEnd(s, i, C) ==
    IF i > Len(s) \/ s[i] \notin C THEN i ELSE RunEnd(s, i + 1, C)

\* p, not empty, occurs in s
Contains(s, p) == \E i \in 1..Len(s) : s[i] = p[1] /\ StartsWithAt(s, i, p)

RECURSIVE Concat(_)
Concat(ss) == IF ss = <<>> THEN <<>> ELSE Head(ss) \o Concat(Tail(ss))

\* ','.join(names)
RECURSIVE Join(_)
Join(names) ==
    IF names = <<>> THEN <<>>
    ELSE IF Len(names) = 1 THEN names[1]
    ELSE names[1] \o <<",">> \o Join(Tail(names))

Min(S) == CHOOSE x \in S : \A y \in S : x <= y

Max(S) == CHOOSE x \in S : \A y \in S : y <= x

\* the indices at or after i where p, not empty, occurs in s
Occurrences(s, i, p) ==
    {j \in i..Len(s) : s[j] = p[1] /\ StartsWithAt(s, j, p)}

\* str.replace(old, ""): every non-overlapping occurrence of old, found left
\* to right, is removed (old is never empty here)
RECURSIVE ReplaceFrom(_, _, _)
ReplaceFrom(s, i, old) ==
    IF Occurrences(s, i, old) = {} THEN SubSeq(s, i, Len(s))
    ELSE LET j == Min(Occurrences(s, i, old))
         IN  SubSeq(s, i, j - 1) \o ReplaceFrom(s, j + Len(old), old)

Replace(s, old) == ReplaceFrom(s, 1, old)

(***************************************************************************)
(* Program constants.                                                      *)
(***************************************************************************)
HEALER_ROSTER ==
    << <<"H", "ô", "s", "t", "e", "r", "i", "c">>,
       <<"D", "e", "l", "v", "u", "r">>,
       <<"Y", "a", "s", "h", "a", "r">>,
       <<"P", "v">>,
       <<"R", "u", "n", "n", "z">>,
       <<"L", "í", "f", "e", "f", "o", "r", "c", "e">>,
       <<"S", "e", "i", "t", "o", "n">> >>

RAID_LEAD == <<"S", "l", "i", "c", "k", "d", "u", "c", "k">>

RaidLeadVisibility == {"ALL", "HEALER_CDS", "NON_HEALER_CDS"}

\* raider in HEALER_ROSTER
InRoster(raider) == \E k \in 1..Len(HEALER_ROSTER) : HEALER_ROSTER[k] = raider

(***************************************************************************)
(* HEADER_REGEX = .*-.*?-\s, applied with match() at the start of the line *)
(***************************************************************************)
\* the index of the first line feed of s, or Len(s) + 1: '.' matches every
\* character but a line feed
FirstLineFeed(s) ==
    Min({j \in 1..Len(s) : s[j] = "\n"} \cup {Len(s) + 1})

\* the second hyphens q of a match whose first hyphen is at p: a later
\* hyphen on the first line that a whitespace follows
HeaderSecondHyphens(s, p) ==
    {q \in (p + 1)..(Len(s) - 1) :
        /\ s[q] = "-"
        /\ s[q + 1] \in Whitespace
        /\ q < FirstLineFeed(s)}

\* the positions the first hyphen can take
HeaderFirstHyphens(s) ==
    {p \in 1..Len(s) : s[p] = "-" /\ HeaderSecondHyphens(s, p) # {}}

\* HEADER_REGEX.match(event): [ok, text]; the greedy .* takes the last
\* possible first hyphen, the lazy .*? the first possible second hyphen
HEADER_REGEX_match(event) ==
    LET P == HeaderFirstHyphens(event)
    IN  IF P = {} THEN [ok |-> FALSE, text |-> <<>>]
        ELSE LET p == Max(P)
                 q == Min(HeaderSecondHyphens(event, p))
             IN  [ok |-> TRUE, text |-> SubSeq(event, 1, q + 1)]

find_header(event) ==
    LET match == HEADER_REGEX_match(event)
    IN  IF ~match.ok THEN <<" ">> ELSE match.text

(***************************************************************************)
(* RAID_CD_REGEX: "|c", 6 to 8 hex digits, group 1 = any run of whitespace *)
(* and word characters, "|r", group 2 = any run of whitespace, "{spell:",  *)
(* any run of digits, "}", two whitespace characters.                      *)
(***************************************************************************)
NoMatch ==
    [ok |-> FALSE, start |-> 0, end |-> 0, text |-> <<>>, name |-> <<>>,
     spell |-> <<>>]

\* the match that starts at index i of s, if any. Every starred class is
\* followed by a character outside it, so each takes its whole run; the
\* colour takes 8 hex digits when there are that many, because the name
\* class contains the hex digits and the rest of the match is the same.
\* end is the index after the match, text is group 0, name is group 1 and
\* spell is group 2.
RaidCdMatchAt(s, i) ==
    IF ~StartsWithAt(s, i, <<"|", "c">>) THEN NoMatch
    ELSE
    LET hexEnd == RunEnd(s, i + 2, HexDigits)
        hexLen == hexEnd - (i + 2)
        nameStart == i + 2 + (IF hexLen > 8 THEN 8 ELSE hexLen)
        nameEnd == RunEnd(s, nameStart, NameChars)
        spellStart == RunEnd(s, nameEnd + 2, Whitespace)
        digitsEnd == RunEnd(s, spellStart + 7, Digits)
    IN  IF /\ hexLen >= 6
           /\ StartsWithAt(s, nameEnd, <<"|", "r">>)
           /\ StartsWithAt(s, spellStart, <<"{", "s", "p", "e", "l", "l", ":">>)
           /\ StartsWithAt(s, digitsEnd, <<"}">>)
           /\ digitsEnd + 2 <= Len(s)
           /\ s[digitsEnd + 1] \in Whitespace
           /\ s[digitsEnd + 2] \in Whitespace
        THEN [ok |-> TRUE, start |-> i, end |-> digitsEnd + 3,
              text |-> SubSeq(s, i, digitsEnd + 2),
              name |-> SubSeq(s, nameStart, nameEnd - 1),
              spell |-> SubSeq(s, nameEnd + 2, digitsEnd + 2)]
        ELSE NoMatch

\* RAID_CD_REGEX.finditer(event): the non-overlapping matches, left to right
RECURSIVE FindIterFrom(_, _)
FindIterFrom(s, i) ==
    LET starts == {j \in i..Len(s) : s[j] = "|" /\ RaidCdMatchAt(s, j).ok}
    IN  IF starts = {} THEN <<>>
        ELSE LET m == RaidCdMatchAt(s, Min(starts))
             IN  <<m>> \o FindIterFrom(s, m.end)

RAID_CD_REGEX_finditer(event) == FindIterFrom(event, 1)

(***************************************************************************)
(* The line normalizer.                                                    *)
(***************************************************************************)
\* re.sub('[|]r{', '|r {', event)
RECURSIVE SubBug1From(_, _)
SubBug1From(s, i) ==
    IF Occurrences(s, i, <<"|", "r", "{">>) = {} THEN SubSeq(s, i, Len(s))
    ELSE LET j == Min(Occurrences(s, i, <<"|", "r", "{">>))
         IN  SubSeq(s, i, j - 1) \o <<"|", "r", " ", "{">>
                \o SubBug1From(s, j + 3)

handle_data_format_bug_1(event_list_) ==
    [k \in 1..Len(event_list_) |-> SubBug1From(event_list_[k], 1)]

(***************************************************************************)
(* The assignment matcher and the per-line steps of the three transforms.  *)
(***************************************************************************)
\* a slip: every match is returned, whoever its assignee is
find_cds_for_healer_Unfiltered(event, healer_) ==
    RAID_CD_REGEX_finditer(event)

\* a slip: the healer is compared with group 2, the spell, not with group 1
find_cds_for_healer_WrongGroup(event, healer_) ==
    SelectSeq(RAID_CD_REGEX_finditer(event),
              LAMBDA match : match.spell = healer_)

find_cds_for_healer(event, healer_) ==
    SelectSeq(RAID_CD_REGEX_finditer(event),
              LAMBDA match : match.name = healer_)

RECURSIVE get_healer_cd_text_from_matches(_)
get_healer_cd_text_from_matches(healer_cd_matches) ==
    IF healer_cd_matches = <<>> THEN <<>>
    ELSE Head(healer_cd_matches).text
            \o get_healer_cd_text_from_matches(Tail(healer_cd_matches))

\* the line do_split_healer_events appends for one event of the fixed list,
\* <<>> when it appends none
SplitEventText(event, healer_) ==
    LET healer_cd_text ==
            get_healer_cd_text_from_matches(find_cds_for_healer(event, healer_))
    IN  IF healer_cd_text # <<>> THEN find_header(event) \o healer_cd_text
        ELSE <<>>

\* the loop of remove_cds_from_event over the matches found in event
RECURSIVE RemoveMatches(_, _, _)
RemoveMatches(processed_event_, matches, healer_) ==
    IF matches = <<>> THEN processed_event_
    ELSE RemoveMatches(
            IF Head(matches).name = healer_
            THEN Replace(processed_event_, Head(matches).text)
            ELSE processed_event_,
            Tail(matches), healer_)

remove_cds_from_event(event, healer_) ==
    RemoveMatches(event, find_cds_for_healer(event, healer_), healer_)

\* the loop of do_strip_healer_cds over HEALER_ROSTER, from the k-th healer
RECURSIVE StripRosterFrom(_, _)
StripRosterFrom(processed_event_, k) ==
    IF k > Len(HEALER_ROSTER) THEN processed_event_
    ELSE StripRosterFrom(
            remove_cds_from_event(processed_event_, HEALER_ROSTER[k]), k + 1)

\* the line do_strip_healer_cds appends for one event of the fixed list,
\* <<>> when it appends none
StripEventText(event) ==
    LET header == find_header(event)
        stripped ==
            StripRosterFrom(Replace(Replace(event, header), <<"\n">>), 1)
    IN  IF stripped # <<>> THEN header \o stripped ELSE <<>>

should_be_visible_to_raid_leader(raider, raid_lead_visibility_) ==
    IF raid_lead_visibility_ = "ALL" THEN TRUE
    ELSE IF raid_lead_visibility_ = "HEALER_CDS" /\ InRoster(raider) THEN TRUE
    ELSE IF raid_lead_visibility_ = "NON_HEALER_CDS" /\ ~InRoster(raider)
         THEN TRUE
    ELSE FALSE

\* {p:<viewers>}<text>{/p}
VisibilityTag(visibility_list, text) ==
    <<"{", "p", ":">> \o Join(visibility_list) \o <<"}">> \o text
        \o <<"{", "/", "p", "}">>

\* visibility_list of get_encapsulated_cd_from_match
CdVisibilityList(cd_match, raid_lead_visibility_) ==
    (IF should_be_visible_to_raid_leader(cd_match.name, raid_lead_visibility_)
     THEN <<RAID_LEAD>> ELSE <<>>) \o <<cd_match.name>>

get_encapsulated_cd_from_match(cd_match, raid_lead_visibility_) ==
    VisibilityTag(CdVisibilityList(cd_match, raid_lead_visibility_),
                  cd_match.text)

\* a slip: = for |=, the last token of the event decides alone
IsHeaderVisibleToRl_LastOnly(matches, raid_lead_visibility_) ==
    /\ matches # <<>>
    /\ should_be_visible_to_raid_leader(matches[Len(matches)].name,
                                        raid_lead_visibility_)

\* the loop of encapsulate_cds over the matches of one event:
\* is_header_visible_to_rl |= is_raider_visible_to_rl
RECURSIVE IsHeaderVisibleToRl(_, _)
IsHeaderVisibleToRl(matches, raid_lead_visibility_) ==
    IF matches = <<>> THEN FALSE
    ELSE \/ IsHeaderVisibleToRl(SubSeq(matches, 1, Len(matches) - 1),
                                raid_lead_visibility_)
         \/ should_be_visible_to_raid_leader(matches[Len(matches)].name,
                                             raid_lead_visibility_)

\* header_visibility_list when the loop over the matches is over and the
\* raid lead has been appended
HeaderVisibilityList(matches, raid_lead_visibility_) ==
    [k \in 1..Len(matches) |-> matches[k].name]
        \o (IF IsHeaderVisibleToRl(matches, raid_lead_visibility_)
            THEN <<RAID_LEAD>> ELSE <<>>)

\* cds when the loop over the matches is over
RECURSIVE EncapsulatedCds(_, _)
EncapsulatedCds(matches, raid_lead_visibility_) ==
    IF matches = <<>> THEN <<>>
    ELSE get_encapsulated_cd_from_match(Head(matches), raid_lead_visibility_)
            \o EncapsulatedCds(Tail(matches), raid_lead_visibility_)

\* a slip: the event is added whether or not anyone has cds on it
EncapsulatedEventLine_NoGuard(header_visibility_set_, header, cds_) ==
    VisibilityTag(header_visibility_set_, header) \o cds_ \o <<"\n">>

\* what encapsulate_cds adds to encapsulated_event_text for one event
EncapsulatedEventLine(header_visibility_set_, header, cds_) ==
    IF cds_ # <<>>
    THEN VisibilityTag(header_visibility_set_, header) \o cds_ \o <<"\n">>
    ELSE <<>>

\* list(set(header_visibility_list)): the elements once each, in an order
\* the language leaves to the hash seed of the run
ListsOfSet(visibility_list) ==
    LET S == {visibility_list[k] : k \in 1..Len(visibility_list)}
    IN  {f \in [1..Cardinality(S) -> S] : {f[k] : k \in 1..Cardinality(S)} = S}

(***************************************************************************)
(* Files.  A file is named by its directory and its name: PATH is the      *)
(* directory of the script, CWD the working directory when it is another.  *)
(***************************************************************************)
\* '-cds.txt'
CdsTxt ==
    <<"-", "c", "d", "s", ".", "t", "x", "t">>

\* 'non-healer-cds.txt'
NonHealerCdsTxt ==
    <<"n", "o", "n", "-", "h", "e", "a", "l", "e", "r", "-", "c", "d", "s",
      ".", "t", "x", "t">>

\* 'encapsulapted-cds.txt'
EncapsulatedCdsTxt ==
    <<"e", "n", "c", "a", "p", "s", "u", "l", "a", "p", "t", "e", "d", "-",
      "c", "d", "s", ".", "t", "x", "t">>

(***************************************************************************)
(* The inputs of the model: event lines made of a header, or none, and of  *)
(* at most MaxTokens assignment tokens, ended by a line feed as readlines  *)
(* returns them.                                                           *)
(***************************************************************************)
\* a well-formed header
HeaderA ==
    <<"A", " ", "-", " ", "0", " ", "-", " ">>

\* the header of the filler line
HeaderB ==
    <<"B", " ", "-", " ", "1", " ", "-", " ">>

\* a token of a roster healer
TokenRunnz ==
    <<"|", "c", "f", "f", "f", "3", "8", "b", "b", "9", "R", "u", "n", "n",
      "z", "|", "r", " ", "{", "s", "p", "e", "l", "l", ":", "1", "}", " ",
      " ">>

\* a token of a roster healer, exported without the space after |r
TokenPv ==
    <<"|", "c", "0", "0", "f", "f", "0", "0", "0", "0", "P", "v", "|", "r",
      "{", "s", "p", "e", "l", "l", ":", "2", "}", " ", " ">>

\* a token of a raider outside the roster
TokenBob ==
    <<"|", "c", "f", "f", "c", "4", "1", "f", "3", "b", "B", "o", "b", "|",
      "r", " ", "{", "s", "p", "e", "l", "l", ":", "3", "}", " ", " ">>

\* a token of the raid lead
TokenLead ==
    <<"|", "c", "f", "f", "f", "f", "f", "f", "f", "f", "S", "l", "i", "c",
      "k", "d", "u", "c", "k", "|", "r", " ", "{", "s", "p", "e", "l", "l",
      ":", "4", "}", " ", " ">>

\* what an output file of an earlier run holds
StaleContent ==
    <<"o", "l", "d", "\n">>

Headers == {HeaderA, <<>>}

Tokens == {TokenRunnz, TokenPv, TokenBob, TokenLead}

TokenSeqs == UNION {[1..n -> Tokens] : n \in 0..MaxTokens}

Lines == {hd \o Concat(ts) \o <<"\n">> : hd \in Headers, ts \in TokenSeqs}

FillerLine == HeaderB \o TokenRunnz \o TokenLead \o <<"\n">>

\* the contents of the source: no line, or at most MaxEvents lines of which
\* one is any of Lines and the others are the filler line
EventLists ==
    {<<>>} \cup
    UNION {UNION {{[k \in 1..n |-> IF k = p THEN l ELSE FillerLine] :
                        l \in Lines} : p \in 1..n} : n \in 1..MaxEvents}

(***************************************************************************)
(* The state.                                                              *)
(***************************************************************************)
VARIABLES
    pc,                       \* the position of main(), or of the transform
    cwd_is_path,              \* the working directory is the script's
    source,                   \* SOURCE: [exists, lines]
    files,                    \* the output files: [exists, content]
    event_list,               \* the lines readlines() returned
    raid_lead_visibility,     \* the policy handed to encapsulate_cds
    healer,                   \* index in HEALER_ROSTER of split_healer_events
    i,                        \* index of the event of the running loop
    event_text,               \* the line the splitter last appended, or <<>>
    processed_event,          \* the line the stripper last appended, or <<>>
    encapsulated_event_text,  \* the buffer of encapsulate_cds
    header_visibility_set,    \* of the event encapsulate_cds handled last
    cds,                      \* of the event encapsulate_cds handled last
    cd_visibility_lists,      \* visibility_list of each token of that event
    runs                      \* the complete runs of main() so far

vars ==
    <<pc, cwd_is_path, source, files, event_list, raid_lead_visibility,
      healer, i, event_text, processed_event, encapsulated_event_text,
      header_visibility_set, cds, cd_visibility_lists, runs>>

HealerFileName(k) == HEALER_ROSTER[k] \o CdsTxt

\* os.path.join(PATH, name)
InPath(name) == [dir |-> "PATH", name |-> name]

\* a relative name, resolved against the working directory
InCwd(name) == [dir |-> IF cwd_is_path THEN "PATH" ELSE "CWD", name |-> name]

NON_HEALER_DEST == InPath(NonHealerCdsTxt)

ENCAPSULATED_CD_DEST == InPath(EncapsulatedCdsTxt)

OutputNames ==
    {HealerFileName(k) : k \in 1..Len(HEALER_ROSTER)}
        \cup {NonHealerCdsTxt, EncapsulatedCdsTxt}

\* the files main() writes to
OutputFiles == {InPath(n) : n \in OutputNames}

\* and the files of these names that main() clears when the working
\* directory is not the script's
FileIds ==
    OutputFiles \cup
    {[dir |-> "CWD", name |-> HealerFileName(k)] : k \in 1..Len(HEALER_ROSTER)}

clear_file(fs, file_name) ==
    IF fs[file_name].exists THEN [fs EXCEPT ![file_name].content = <<>>]
    ELSE fs

\* open(file_name, 'a+'): the file is created when it is missing
OpenAppend(fs, file_name) == [fs EXCEPT ![file_name].exists = TRUE]

append_event_to_file(fs, event, dest_file) ==
    [fs EXCEPT ![dest_file].content = @ \o event \o <<"\n">>]

\* the loop of main() over HEALER_ROSTER, from the k-th healer
RECURSIVE ClearHealerFilesFrom(_, _)
ClearHealerFilesFrom(fs, k) ==
    IF k > Len(HEALER_ROSTER) THEN fs
    ELSE ClearHealerFilesFrom(clear_file(fs, InCwd(HealerFileName(k))), k + 1)

(***************************************************************************)
(* The initial states.                                                     *)
(***************************************************************************)
InitLocals ==
    /\ healer = 1
    /\ event_text = <<>>
    /\ processed_event = <<>>
    /\ encapsulated_event_text = <<>>
    /\ header_visibility_set = <<>>
    /\ cds = <<>>
    /\ cd_visibility_lists = <<>>
    /\ runs = 0

\* main() is about to start: the source exists or not, the output files of
\* an earlier run exist or not, in the script's directory and elsewhere
Init ==
    /\ pc = "clear_healers"
    /\ cwd_is_path \in BOOLEAN
    /\ source \in {[exists |-> FALSE, lines |-> <<>>]}
                    \cup {[exists |-> TRUE, lines |-> el] : el \in EventLists}
    /\ \E stale \in BOOLEAN :
          files = [f \in FileIds |->
                      [exists |-> stale,
                       content |-> IF stale THEN StaleContent ELSE <<>>]]
    /\ event_list = <<>>
    /\ raid_lead_visibility = "NON_HEALER_CDS"
    /\ i = 0
    /\ InitLocals

\* one of the transforms is about to be applied to an event list, the
\* encapsulator under any policy
InitTransforms ==
    /\ cwd_is_path = TRUE
    /\ event_list \in EventLists
    /\ source = [exists |-> TRUE, lines |-> event_list]
    /\ files = [f \in FileIds |-> [exists |-> FALSE, content |-> <<>>]]
    /\ \/ pc = "split" /\ i = 0 /\ raid_lead_visibility = "NON_HEALER_CDS"
       \/ pc = "encapsulate" /\ i = 1
            /\ raid_lead_visibility \in RaidLeadVisibility
    /\ InitLocals

(***************************************************************************)
(* main()                                                                  *)
(***************************************************************************)
\* for healer in HEALER_ROSTER: clear_file(healer + '-cds.txt')
ClearHealerFiles ==
    /\ pc = "clear_healers"
    /\ files' = ClearHealerFilesFrom(files, 1)
    /\ pc' = "clear_non_healer"
    /\ UNCHANGED <<cwd_is_path, source, event_list, raid_lead_visibility,
                   healer, i, event_text, processed_event,
                   encapsulated_event_text, header_visibility_set, cds,
                   cd_visibility_lists, runs>>

\* clear_file(NON_HEALER_DEST)
ClearNonHealerFile ==
    /\ pc = "clear_non_healer"
    /\ files' = clear_file(files, NON_HEALER_DEST)
    /\ pc' = "open_source"
    /\ UNCHANGED <<cwd_is_path, source, event_list, raid_lead_visibility,
                   healer, i, event_text, processed_event,
                   encapsulated_event_text, header_visibility_set, cds,
                   cd_visibility_lists, runs>>

\* with open(SOURCE, 'r') as test_file: event_list = test_file.readlines()
\* open raises FileNotFoundError when the source is missing
OpenSource ==
    /\ pc = "open_source"
    /\ IF source.exists
       THEN /\ event_list' = source.lines
            /\ pc' = "split"
       ELSE /\ event_list' = event_list
            /\ pc' = "failed"
    /\ healer' = 1
    /\ i' = 0
    /\ UNCHANGED <<cwd_is_path, source, files, raid_lead_visibility,
                   event_text, processed_event, encapsulated_event_text,
                   header_visibility_set, cds, cd_visibility_lists, runs>>

(***************************************************************************)
(* split_healer_events and do_split_healer_events                          *)
(***************************************************************************)
\* with open(os.path.join(PATH, healer + '-cds.txt'), 'a+') as cd_dest
SplitOpen ==
    /\ pc = "split"
    /\ i = 0
    /\ files' = OpenAppend(files, InPath(HealerFileName(healer)))
    /\ i' = 1
    /\ UNCHANGED <<pc, cwd_is_path, source, event_list, raid_lead_visibility,
                   healer, event_text, processed_event,
                   encapsulated_event_text, header_visibility_set, cds,
                   cd_visibility_lists, runs>>

\* one turn of the loop of do_split_healer_events
SplitEvent ==
    /\ pc = "split"
    /\ i \in 1..Len(event_list)
    /\ LET event == handle_data_format_bug_1(event_list)[i]
       IN  event_text' = SplitEventText(event, HEALER_ROSTER[healer])
    /\ files' = IF event_text' # <<>>
                THEN append_event_to_file(files, event_text',
                                          InPath(HealerFileName(healer)))
                ELSE files
    /\ i' = i + 1
    /\ UNCHANGED <<pc, cwd_is_path, source, event_list, raid_lead_visibility,
                   healer, processed_event, encapsulated_event_text,
                   header_visibility_set, cds, cd_visibility_lists, runs>>

\* the loop is over: the file is closed, the next healer's turn or
\* strip_healer_cds
SplitClose ==
    /\ pc = "split"
    /\ i > Len(event_list)
    /\ i' = 0
    /\ IF healer < Len(HEALER_ROSTER)
       THEN healer' = healer + 1 /\ pc' = pc
       ELSE healer' = 1 /\ pc' = "strip"
    /\ UNCHANGED <<cwd_is_path, source, files, event_list,
                   raid_lead_visibility, event_text, processed_event,
                   encapsulated_event_text, header_visibility_set, cds,
                   cd_visibility_lists, runs>>

(***************************************************************************)
(* strip_healer_cds and do_strip_healer_cds                                *)
(***************************************************************************)
\* with open(NON_HEALER_DEST, 'a+') as dest_file
StripOpen ==
    /\ pc = "strip"
    /\ i = 0
    /\ files' = OpenAppend(files, NON_HEALER_DEST)
    /\ i' = 1
    /\ UNCHANGED <<pc, cwd_is_path, source, event_list, raid_lead_visibility,
                   healer, event_text, processed_event,
                   encapsulated_event_text, header_visibility_set, cds,
                   cd_visibility_lists, runs>>

\* one turn of the loop of do_strip_healer_cds
StripEvent ==
    /\ pc = "strip"
    /\ i \in 1..Len(event_list)
    /\ LET event == handle_data_format_bug_1(event_list)[i]
       IN  processed_event' = StripEventText(event)
    /\ files' = IF processed_event' # <<>>
                THEN append_event_to_file(files, processed_event',
                                          NON_HEALER_DEST)
                ELSE files
    /\ i' = i + 1
    /\ UNCHANGED <<pc, cwd_is_path, source, event_list, raid_lead_visibility,
                   healer, event_text, encapsulated_event_text,
                   header_visibility_set, cds, cd_visibility_lists, runs>>

\* the loop is over: the file and the source are closed
StripClose ==
    /\ pc = "strip"
    /\ i > Len(event_list)
    /\ i' = 0
    /\ pc' = "clear_encapsulated"
    /\ UNCHANGED <<cwd_is_path, source, files, event_list,
                   raid_lead_visibility, healer, event_text, processed_event,
                   encapsulated_event_text, header_visibility_set, cds,
                   cd_visibility_lists, runs>>

(***************************************************************************)
(* The second half of main() and encapsulate_cds                           *)
(***************************************************************************)
\* raid_lead_visibility = RaidLeadVisibility.NON_HEALER_CDS
\* clear_file(ENCAPSULATED_CD_DEST)
ClearEncapsulatedFile ==
    /\ pc = "clear_encapsulated"
    /\ raid_lead_visibility' = "NON_HEALER_CDS"
    /\ files' = clear_file(files, ENCAPSULATED_CD_DEST)
    /\ pc' = "reopen_source"
    /\ UNCHANGED <<cwd_is_path, source, event_list, healer, i, event_text,
                   processed_event, encapsulated_event_text,
                   header_visibility_set, cds, cd_visibility_lists, runs>>

\* with open(SOURCE, 'r') as source_file: event_list = source_file.readlines()
\* then encapsulate_cds starts with an empty buffer
ReopenSource ==
    /\ pc = "reopen_source"
    /\ event_list' = source.lines
    /\ encapsulated_event_text' = <<>>
    /\ i' = 1
    /\ pc' = "encapsulate"
    /\ UNCHANGED <<cwd_is_path, source, files, raid_lead_visibility, healer,
                   event_text, processed_event, header_visibility_set, cds,
                   cd_visibility_lists, runs>>

\* one turn of the loop of encapsulate_cds
EncapsulateEvent ==
    /\ pc = "encapsulate"
    /\ i \in 1..Len(event_list)
    /\ LET event == event_list[i]
           header == find_header(event)
           matches == RAID_CD_REGEX_finditer(event)
       IN  /\ cds' = EncapsulatedCds(matches, raid_lead_visibility)
           /\ cd_visibility_lists' =
                [k \in 1..Len(matches) |->
                    CdVisibilityList(matches[k], raid_lead_visibility)]
           /\ header_visibility_set' \in
                ListsOfSet(HeaderVisibilityList(matches, raid_lead_visibility))
           /\ encapsulated_event_text' =
                encapsulated_event_text
                    \o EncapsulatedEventLine(header_visibility_set', header,
                                             cds')
    /\ i' = i + 1
    /\ UNCHANGED <<pc, cwd_is_path, source, files, event_list,
                   raid_lead_visibility, healer, event_text, processed_event,
                   runs>>

\* with open(ENCAPSULATED_CD_DEST, 'a+') as dest_file:
\*     append_event_to_file(encapsulated_event_text, dest_file)
EncapsulateWrite ==
    /\ pc = "encapsulate"
    /\ i > Len(event_list)
    /\ files' = append_event_to_file(
                    OpenAppend(files, ENCAPSULATED_CD_DEST),
                    encapsulated_event_text, ENCAPSULATED_CD_DEST)
    /\ pc' = "done"
    /\ runs' = runs + 1
    /\ UNCHANGED <<cwd_is_path, source, event_list, raid_lead_visibility,
                   healer, i, event_text, processed_event,
                   encapsulated_event_text, header_visibility_set, cds,
                   cd_visibility_lists>>

\* the script is run again over the same source
RunAgain ==
    /\ pc = "done"
    /\ runs < MaxRuns
    /\ pc' = "clear_healers"
    /\ event_list' = <<>>
    /\ healer' = 1
    /\ i' = 0
    /\ event_text' = <<>>
    /\ processed_event' = <<>>
    /\ encapsulated_event_text' = <<>>
    /\ header_visibility_set' = <<>>
    /\ cds' = <<>>
    /\ cd_visibility_lists' = <<>>
    /\ UNCHANGED <<cwd_is_path, source, files, raid_lead_visibility, runs>>

Next ==
    \/ ClearHealerFiles
    \/ ClearNonHealerFile
    \/ OpenSource
    \/ SplitOpen
    \/ SplitEvent
    \/ SplitClose
    \/ StripOpen
    \/ StripEvent
    \/ StripClose
    \/ ClearEncapsulatedFile
    \/ ReopenSource
    \/ EncapsulateEvent
    \/ EncapsulateWrite
    \/ RunAgain

Spec == Init /\ [][Next]_vars

NextTransforms ==
    \/ SplitOpen
    \/ SplitEvent
    \/ SplitClose
    \/ StripOpen
    \/ StripEvent
    \/ StripClose
    \/ EncapsulateEvent
    \/ EncapsulateWrite

SpecTransforms == InitTransforms /\ [][NextTransforms]_vars

(***************************************************************************)
(* Vocabulary of the properties.                                           *)
(***************************************************************************)
Range(seq) == {seq[k] : k \in 1..Len(seq)}

Texts(matches) == [k \in 1..Len(matches) |-> matches[k].text]

Names(matches) == [k \in 1..Len(matches) |-> matches[k].name]

\* the assignment tokens of a line, as the unfiltered matcher finds them
TokensOf(line) == RAID_CD_REGEX_finditer(line)

TokensOfAssignee(line, raider) ==
    SelectSeq(TokensOf(line), LAMBDA m : m.name = raider)

RosterTokens(line) == SelectSeq(TokensOf(line), LAMBDA m : InRoster(m.name))

NonRosterTokens(line) ==
    SelectSeq(TokensOf(line), LAMBDA m : ~InRoster(m.name))

WellFormedHeader(line) == HEADER_REGEX_match(line).ok

NoDuplicates(seq) ==
    \A a, b \in 1..Len(seq) : a # b => seq[a] # seq[b]

CountOf(s, p) == Cardinality(Occurrences(s, 1, p))

\* the lines of a text, each without the line feed that ends it
RECURSIVE LinesFrom(_, _)
LinesFrom(s, k) ==
    IF k > Len(s) THEN <<>>
    ELSE IF Occurrences(s, k, <<"\n">>) = {} THEN <<SubSeq(s, k, Len(s))>>
    ELSE LET j == Min(Occurrences(s, k, <<"\n">>))
         IN  <<SubSeq(s, k, j - 1)>> \o LinesFrom(s, j + 1)

LinesOf(s) == LinesFrom(s, 1)

OpenTag == <<"{", "p", ":">>

CloseTag == <<"{", "/", "p", "}">>

\* the splitter has just handled event i - 1 for HEALER_ROSTER[healer]
SplitHandled == pc = "split" /\ i >= 2

\* the stripper has just handled event i - 1
StripHandled == pc = "strip" /\ i >= 2

\* the encapsulator has just handled event i - 1
EncapsulateHandled == pc \in {"encapsulate", "done"} /\ i >= 2

\* the event the splitter or the stripper handled last: a line of the fixed
\* list
FixedEvent == handle_data_format_bug_1(event_list)[i - 1]

(***************************************************************************)
(* C1: the line the stripper writes for an event holds no assignment token *)
(* of a roster member and holds exactly the tokens of the event whose      *)
(* assignee is outside the roster, in their order.                         *)
(***************************************************************************)
C1_StrippedLineHasExactlyNonRosterTokens ==
    (StripHandled /\ processed_event # <<>>) =>
        /\ RosterTokens(processed_event) = <<>>
        /\ Texts(TokensOf(processed_event)) = Texts(NonRosterTokens(FixedEvent))

(***************************************************************************)
(* C2: for an event with at least one token, the viewers of the header tag *)
(* are the assignees of the event's tokens, once each, and the raid lead   *)
(* is added exactly when one of them is visible to the raid lead under the *)
(* policy.                                                                 *)
(***************************************************************************)
C2_HeaderViewersAreAssigneesPlusLead ==
    EncapsulateHandled =>
        \A assignees \in {Range(Names(TokensOf(event_list[i - 1])))} :
            assignees # {} =>
                LET lead == IF \E raider \in assignees :
                                  should_be_visible_to_raid_leader(
                                      raider, raid_lead_visibility)
                            THEN {RAID_LEAD} ELSE {}
                IN  /\ Range(header_visibility_set) = assignees \cup lead
                    /\ NoDuplicates(header_visibility_set)

\* an event of a roster healer and of a raider outside the roster, under
\* the policy of main(): three viewers, the raid lead among them
C2_Witness ==
    /\ EncapsulateHandled
    /\ raid_lead_visibility = "NON_HEALER_CDS"
    /\ Len(TokensOf(event_list[i - 1])) = 2
    /\ Len(RosterTokens(event_list[i - 1])) = 1
    /\ RAID_LEAD \notin Range(Names(TokensOf(event_list[i - 1])))
    /\ Len(header_visibility_set) = 3
    /\ RAID_LEAD \in Range(header_visibility_set)

(***************************************************************************)
(* C3: the text the encapsulator writes holds one line for each event that *)
(* has a token and none for the others; each line is one header tag and    *)
(* then one tag for each token of the event, none with an empty body.      *)
(***************************************************************************)
C3_EncapsulatedEventsHaveTokens ==
    (pc = "done"
        /\ files[ENCAPSULATED_CD_DEST].content
                = encapsulated_event_text \o <<"\n">>) =>
        \A out \in {LinesOf(encapsulated_event_text)} :
        \A tokens \in {[k \in 1..Len(event_list) |->
                            Len(TokensOf(event_list[k]))]} :
        \A withTokens \in {SelectSeq(tokens, LAMBDA n : n >= 1)} :
            /\ Len(out) = Len(withTokens)
            /\ \A k \in 1..Len(out) :
                  /\ StartsWithAt(out[k], 1, OpenTag)
                  /\ CountOf(out[k], OpenTag) = 1 + withTokens[k]
                  /\ CountOf(out[k], CloseTag) = 1 + withTokens[k]
                  /\ ~Contains(out[k], <<"}">> \o CloseTag)

\* an event without a token has been skipped and an event with tokens added
C3_Witness ==
    /\ pc = "done"
    /\ \E a, b \in 1..Len(event_list) :
          /\ TokensOf(event_list[a]) = <<>>
          /\ TokensOf(event_list[b]) # <<>>
    /\ Len(LinesOf(encapsulated_event_text)) = 1

(***************************************************************************)
(* C4: for a roster healer X and an event with a well-formed header, the   *)
(* splitter appends header + the tokens of X in their order as one line    *)
(* when X has a token, and nothing when X has none; the file of X holds    *)
(* these lines and no token of anyone else.                                *)
(***************************************************************************)
C4_ExpectedLine(line, raider) ==
    IF TokensOfAssignee(line, raider) = <<>> THEN <<>>
    ELSE HEADER_REGEX_match(line).text
            \o Concat(Texts(TokensOfAssignee(line, raider)))

C4_SplitterAppendsHeaderAndTokens ==
    SplitHandled =>
        LET X == HEALER_ROSTER[healer]
            fixed == handle_data_format_bug_1(event_list)
            dest == files[InPath(HealerFileName(healer))].content
        IN  /\ WellFormedHeader(FixedEvent) =>
                  event_text = C4_ExpectedLine(FixedEvent, X)
            /\ (\A j \in 1..(i - 1) : WellFormedHeader(fixed[j])) =>
                  /\ dest = Concat([j \in 1..(i - 1) |->
                                IF C4_ExpectedLine(fixed[j], X) = <<>>
                                THEN <<>>
                                ELSE C4_ExpectedLine(fixed[j], X) \o <<"\n">>])
                  /\ \A m \in Range(TokensOf(dest)) : m.name = X

\* two events with well-formed headers have been handled for one healer:
\* one holds two tokens, of which one is the healer's, the other holds no
\* token of the healer
C4_Witness ==
    /\ SplitHandled
    /\ i = 3
    /\ LET X == HEALER_ROSTER[healer]
           fixed == handle_data_format_bug_1(event_list)
       IN  /\ WellFormedHeader(fixed[1]) /\ WellFormedHeader(fixed[2])
           /\ \E a, b \in 1..2 :
                 /\ TokensOfAssignee(fixed[a], X) = <<>>
                 /\ Len(TokensOfAssignee(fixed[b], X)) = 1
                 /\ Len(TokensOf(fixed[b])) = 2
           /\ Len(LinesOf(files[InPath(HealerFileName(healer))].content)) = 1

(***************************************************************************)
(* C5: when opening the source fails, no output file has been cleared or   *)
(* written: every output file that exists still holds what it held.        *)
(***************************************************************************)
C5_NoTruncationBeforeSourceFailure ==
    pc = "failed" =>
        \A f \in FileIds : files[f].exists => files[f].content = StaleContent

(***************************************************************************)
(* C6: the viewers of every visibility tag, of a token and of a header,    *)
(* are pairwise distinct.                                                  *)
(***************************************************************************)
C6_ViewerListsHaveNoDuplicates ==
    EncapsulateHandled =>
        /\ NoDuplicates(header_visibility_set)
        /\ \A k \in 1..Len(cd_visibility_lists) :
              NoDuplicates(cd_visibility_lists[k])

(***************************************************************************)
(* C7: a line that fails the header pattern gets the one-space placeholder *)
(* as its header, and each transform still emits the line's tokens after   *)
(* the placeholder: the splitter the healer's tokens, the stripper the     *)
(* tokens of the raiders outside the roster, the encapsulator all of them. *)
(***************************************************************************)
C7_MalformedLineKeepsItsTokens ==
    /\ (SplitHandled /\ ~WellFormedHeader(FixedEvent)) =>
          LET mine == TokensOfAssignee(FixedEvent, HEALER_ROSTER[healer])
          IN  event_text =
                IF mine = <<>> THEN <<>> ELSE <<" ">> \o Concat(Texts(mine))
    /\ (StripHandled /\ ~WellFormedHeader(FixedEvent)) =>
          LET others == NonRosterTokens(FixedEvent)
          IN  /\ others # <<>> => StartsWithAt(processed_event, 1, <<" ">>)
              /\ Texts(TokensOf(processed_event)) = Texts(others)
    /\ (EncapsulateHandled /\ ~WellFormedHeader(event_list[i - 1])) =>
          LET all == TokensOf(event_list[i - 1])
          IN  all # <<>> =>
                LET out == LinesOf(encapsulated_event_text)
                IN  /\ out # <<>>
                    /\ Contains(out[Len(out)],
                                <<"}", " ">> \o CloseTag \o OpenTag)
                    /\ \A k \in 1..Len(all) :
                          Contains(out[Len(out)], all[k].text)

(***************************************************************************)
(* C8: the token texts the splitter collects for an event over all roster  *)
(* identities are the token texts the unfiltered matcher finds in it.      *)
(***************************************************************************)
SplitterTexts(line) ==
    UNION {Range(Texts(find_cds_for_healer(line, HEALER_ROSTER[k]))) :
                k \in 1..Len(HEALER_ROSTER)}

\* the claim as stated: every token of the event is collected
C8_SplitterCollectsEveryToken ==
    (SplitHandled /\ healer = Len(HEALER_ROSTER)) =>
        SplitterTexts(FixedEvent) = Range(Texts(TokensOf(FixedEvent)))

\* the claim as amended: the tokens of the roster members are collected,
\* and no other
C8_SplitterCollectsRosterTokens ==
    (SplitHandled /\ healer = Len(HEALER_ROSTER)) =>
        SplitterTexts(FixedEvent) =
            {m.text : m \in {t \in Range(TokensOf(FixedEvent)) :
                                \E k \in 1..Len(HEALER_ROSTER) :
                                    t.name = HEALER_ROSTER[k]}}

\* an event with a token of a roster member and a token of another raider
\* has been handled for every identity
C8_Witness ==
    /\ SplitHandled
    /\ healer = Len(HEALER_ROSTER)
    /\ RosterTokens(FixedEvent) # <<>>
    /\ NonRosterTokens(FixedEvent) # <<>>
    /\ \E k \in 1..Len(HEALER_ROSTER) :
          files[InPath(HealerFileName(k))].content # <<>>

(***************************************************************************)
(* C9: when a run of main() is complete, every output file holds the      *)
(* lines of that run and nothing else.                                     *)
(***************************************************************************)
C9_OutputsHoldOnlyTheLastRun ==
    pc = "done" =>
        LET fixed == handle_data_format_bug_1(source.lines)
            lineOf(text) == IF text = <<>> THEN <<>> ELSE text \o <<"\n">>
        IN  /\ \A k \in 1..Len(HEALER_ROSTER) :
                  files[InPath(HealerFileName(k))].content =
                      Concat([j \in 1..Len(fixed) |->
                                lineOf(SplitEventText(fixed[j],
                                                      HEALER_ROSTER[k]))])
            /\ files[NON_HEALER_DEST].content =
                  Concat([j \in 1..Len(fixed) |->
                            lineOf(StripEventText(fixed[j]))])
            /\ files[ENCAPSULATED_CD_DEST].content =
                  encapsulated_event_text \o <<"\n">>

(***************************************************************************)
(* C10: the three consumers work on the fixed lines: what each emits for   *)
(* an event is what it emits for the fixed event, and no output holds the  *)
(* defect, a |r directly followed by an opening brace.                     *)
(***************************************************************************)
C10_ConsumersWorkOnFixedLines ==
    LET defect == <<"|", "r", "{">>
    IN  /\ SplitHandled =>
              /\ event_text = SplitEventText(FixedEvent, HEALER_ROSTER[healer])
              /\ ~Contains(event_text, defect)
        /\ StripHandled =>
              /\ processed_event = StripEventText(FixedEvent)
              /\ ~Contains(processed_event, defect)
        /\ EncapsulateHandled =>
              /\ cds = EncapsulatedCds(
                          TokensOf(handle_data_format_bug_1(
                                       event_list)[i - 1]),
                          raid_lead_visibility)
              /\ ~Contains(encapsulated_event_text, defect)

====
